---- MODULE Spec2Model ----
(***************************************************************************)
(* Model of the numerical core of the two figure scripts                   *)
(*   content/diagrams/02-gaussian-fitting-taylor.py                        *)
(*   content/diagrams/03-peak-deconvolution-step3.py                       *)
(* Real numbers are exact rationals <<num, den>> over scaled integer       *)
(* units; the unit of each quantity is stated where it is introduced.      *)
(***************************************************************************)
EXTENDS Integers, Sequences, FiniteSets, TLC

VARIABLES
  pc,             \* position of the running script / function
  error,          \* name of the exception that ended the run, or "none"
  kernel_sigmas,  \* the sigmas the Gaussian kernels divided by in the last step
  \* ---- shared-t0 grid search (02, plot_shared_t0_multi_gauss)
  sigma_est, t0_est, t0_grid, s1_grid, s2_grid,
  pos,            \* <<i, j, k>>: the cell the triple loop is at (1-based)
  best_sse, best_coef, best_yhat, best_t0, best_s1, best_s2,
  solved,         \* history: the cells handed to solve_linear so far
  skipped,        \* history: the cells the s1 >= s2 test skipped so far
  min_sse,        \* history: the least sse solve_linear has returned so far
  last_call,      \* history: the (s1, s2) of the latest solve_linear call
  \* ---- moment estimator (02, lines 42-57 and 137-146)
  policy,         \* "single" (plot_single_gauss) or "multi" (plot_shared_...)
  t, s0, threshold, weights, area,
  thr_area,       \* history: the area of the thresholded weights (line 46)
  used_fallback,  \* history: whether lines 48-49 ran
  area_div,       \* history: what lines 51-52 divided by
  t0_est_m, var_est,
  sigma_est_sq,   \* sigma_est squared: sigma_est = sqrt(sigma_est_sq)
  \* ---- baseline estimation (02, lines 38-40 and 134-136)
  bt, signal_b,   \* the sampled times and signal
  edge_lo, edge_hi, \* the mask is (t <= edge_lo) | (t >= edge_hi)
  edge,           \* the boolean mask
  pb,             \* np.polyfit's result <<slope, intercept>>, or None
  rank_warning,   \* whether np.polyfit warned "may be poorly conditioned"
  baseline_hat,
  \* ---- general multi-Gaussian fit (03, main and _fit_model)
  true_components, y_stats, \* the components and min/median/max of y
  p0, lb, ub,
  nfev_needed,    \* function evaluations the optimizer needs on this data
  last_iterate,   \* history: the optimizer's iterate when curve_fit ended
  fit_error,      \* the exception curve_fit raised, or None
  popt,
  reads,          \* the reads of the latest _fit_model evaluation
  y_fit, fit_decoded, \* lines 65-75
  \* ---- synthetic series (02, lines 19-36 and 97-117; 03, lines 31-41)
  fn,             \* the function that is running, or "none"
  t_series,       \* its local t: the sampled times of the series
  rng,            \* the state of its local generator, or None
  noise, signal, spike_indices,
  draws,          \* history: the generator calls of this invocation
  calls,          \* history: completed invocations of each function
  first_out,      \* history: the series each function's first call built
  last_out        \* history: the series its latest call built

gridVars == <<sigma_est, t0_est, t0_grid, s1_grid, s2_grid, pos,
              best_sse, best_coef, best_yhat, best_t0, best_s1, best_s2,
              solved, skipped, min_sse, last_call>>

momentVars == <<policy, t, s0, threshold, weights, area, thr_area,
                used_fallback, area_div, t0_est_m, var_est, sigma_est_sq>>

baseVars == <<bt, signal_b, edge_lo, edge_hi, edge, pb, rank_warning,
              baseline_hat>>

fitVars == <<true_components, y_stats, p0, lb, ub, nfev_needed,
             last_iterate, fit_error, popt, reads, y_fit, fit_decoded>>

genVars == <<fn, t_series, rng, noise, signal, spike_indices, draws, calls,
             first_out, last_out>>

vars == <<pc, error, kernel_sigmas, gridVars, momentVars, baseVars, fitVars,
          genVars>>

\* what the steps of one function leave alone: the other functions' locals
gridOthers == <<momentVars, baseVars, fitVars, genVars>>
momentOthers == <<gridVars, baseVars, fitVars, genVars>>
baseOthers == <<gridVars, momentVars, fitVars, genVars>>
fitOthers == <<gridVars, momentVars, baseVars, genVars>>
genOthers == <<gridVars, momentVars, baseVars, fitVars>>

(***************************************************************************)
(* Bounds of the model                                                     *)
(***************************************************************************)
NT0 == 2          \* points of t0_grid   (21 in the script)
NS1 == 2          \* points of s1_grid   (12 in the script)
NS2 == 2          \* points of s2_grid   (14 in the script)
MaxSSE == 1       \* residual sums of squares range over 0..MaxSSE
MaxSig == 3       \* given grid end points range over 1..MaxSig
MaxSigmaEst == 50 \* sigma_est ranges over 1..MaxSigmaEst, unit 0.01
NM == 4           \* samples of a baseline-subtracted series
MaxW == 2         \* baseline-subtracted samples range up to 10 * MaxW
NB == 3           \* samples of a series whose baseline is estimated
MaxY == 1         \* its signal values range over 0..MaxY
MaxK == 3         \* a fit is called with 1..MaxK component guesses
FevSlack == 1     \* evaluations needed range over maxfev -/+ FevSlack
NGen == 6         \* samples of a synthetic series (600 and 700)
Margin == 1       \* spikes keep this far from both ends (30)
NSpikes == 1      \* spikes injected (10)
MaxCalls == 2     \* invocations of each function in one process

(***************************************************************************)
(* Exact rationals and Python's None                                       *)
(***************************************************************************)
None == <<>>
Some(v) == <<v>>

RECURSIVE GCD(_, _)
GCD(a, b) == IF b = 0 THEN a ELSE GCD(b, a % b)

Abs(n) == IF n < 0 THEN -n ELSE n

\* n/d in lowest terms, d > 0
Rat(n, d) ==
  LET g == GCD(Abs(n), Abs(d))
      s == IF d < 0 THEN -1 ELSE 1
  IN  <<s * (n \div g), s * (d \div g)>>

\* a <= b, by integer parts first and then by the reciprocals of the
\* fractional parts, so that no product is formed
RECURSIVE RLe(_, _)
RLe(a, b) ==
  LET qa == a[1] \div a[2]
      qb == b[1] \div b[2]
      ra == a[1] % a[2]
      rb == b[1] % b[2]
  IN  IF qa # qb THEN qa < qb
      ELSE IF ra = 0 THEN TRUE
      ELSE IF rb = 0 THEN FALSE
      ELSE RLe(<<b[2], rb>>, <<a[2], ra>>)
RLt(a, b) == ~RLe(b, a)
RGe(a, b) == RLe(b, a)

\* Sums are brought to the least common denominator, and products are
\* cancelled crosswise first, so that intermediate integers stay small.
RMaxOf(a, b) == IF RGe(a, b) THEN a ELSE b
RAdd(a, b) ==
  LET g == GCD(a[2], b[2])
  IN  Rat(a[1] * (b[2] \div g) + b[1] * (a[2] \div g), (a[2] \div g) * b[2])
RSub(a, b) ==
  LET g == GCD(a[2], b[2])
  IN  Rat(a[1] * (b[2] \div g) - b[1] * (a[2] \div g), (a[2] \div g) * b[2])
RMul(a, b) ==
  LET g == GCD(Abs(a[1]), b[2])
      h == GCD(Abs(b[1]), a[2])
  IN  Rat((a[1] \div g) * (b[1] \div h), (a[2] \div h) * (b[2] \div g))
RDiv(a, b) == Rat(a[1] * b[2], a[2] * b[1])
MaxInt(a, b) == IF a >= b THEN a ELSE b

\* np.linspace(a, b, n): a + i*(b-a)/(n-1), i = 0..n-1; [a] when n = 1
LinSpace(a, b, n) ==
  [i \in 1..n |-> IF n = 1 THEN Rat(a, 1)
                  ELSE Rat(a * (n - 1) + (i - 1) * (b - a), n - 1)]

(***************************************************************************)
(* The locals of a function before it runs                                 *)
(***************************************************************************)
Zero == <<0, 1>>

\* 02, lines 152-157
GridIdle ==
  /\ pos = <<1, 1, 1>>
  /\ best_sse = None /\ best_coef = None /\ best_yhat = None
  /\ best_t0 = None /\ best_s1 = None /\ best_s2 = None
  /\ solved = {} /\ skipped = {} /\ min_sse = None /\ last_call = None

GridOff ==
  /\ sigma_est = 0 /\ t0_est = 0
  /\ t0_grid = <<>> /\ s1_grid = <<>> /\ s2_grid = <<>>
  /\ GridIdle

MomentIdle ==
  /\ threshold = Zero /\ weights = <<>> /\ area = Zero /\ thr_area = Zero
  /\ used_fallback = FALSE /\ area_div = None
  /\ t0_est_m = None /\ var_est = None /\ sigma_est_sq = None

MomentOff == policy = "off" /\ t = <<>> /\ s0 = <<>> /\ MomentIdle

BaseIdle ==
  /\ edge = <<>> /\ pb = None /\ rank_warning = FALSE /\ baseline_hat = <<>>

BaseOff ==
  /\ bt = <<>> /\ signal_b = <<>> /\ edge_lo = 0 /\ edge_hi = 0 /\ BaseIdle

FitIdle ==
  /\ p0 = <<>> /\ lb = <<>> /\ ub = <<>>
  /\ last_iterate = None /\ fit_error = None /\ popt = None
  /\ reads = <<>> /\ y_fit = None /\ fit_decoded = None

FitOff ==
  /\ true_components = <<>> /\ y_stats = None /\ nfev_needed = 0 /\ FitIdle

Functions == {"plot_single_gauss", "plot_shared_t0_multi_gauss", "main"}

GenIdle ==
  /\ fn = "none" /\ t_series = <<>>
  /\ rng = None /\ noise = <<>> /\ signal = <<>>
  /\ spike_indices = <<>> /\ draws = <<>>

GenOff ==
  /\ GenIdle
  /\ calls = [f \in Functions |-> 0]
  /\ first_out = [f \in Functions |-> None]
  /\ last_out = [f \in Functions |-> None]

(***************************************************************************)
(* A sigma a Gaussian kernel divides by: n/d in units of 1/scale, or its   *)
(* square (sq) when the sigma is the square root of n/d.                   *)
(***************************************************************************)
Divisor(r, scale, squared, kernel) ==
  [n |-> r[1], d |-> r[2], scale |-> scale, sq |-> squared, kernel |-> kernel]

FloorInv == 1000000000   \* 1 / 1e-9, the floor of 03 line 16

CeilDiv(a, b) == (a + b - 1) \div b

\* a >= 1/K for a rational a with positive denominator
RGeInv(a, K) == a[1] >= CeilDiv(a[2], K)

\* the sigma is at least 1e-9
AboveFloor(dv) ==
  LET K == FloorInv \div dv.scale
  IN  IF dv.sq THEN RGeInv(<<dv.n, dv.d>>, K * K)
      ELSE RGeInv(<<dv.n, dv.d>>, K)

(***************************************************************************)
(* Baseline estimation: 02-gaussian-fitting-taylor.py, lines 38-40 and     *)
(* 134-136.  np.polyfit(x, y, 1) raises TypeError on an empty x; otherwise *)
(* it scales the columns of the Vandermonde matrix, solves by              *)
(* np.linalg.lstsq (the minimum-norm solution when the rank is below 2)    *)
(* and only warns when the rank is below 2.                                *)
(***************************************************************************)
\* times, in units of 0.1
TStartSingle == 0    \* 0.0, line 20
TStopSingle == 1200  \* 120.0, line 20
TStartMulti == 30    \* 3.0, line 98
TStopMulti == 80     \* 8.0, line 98
TStartStep3 == 0     \* 0.0, 03 line 32
TStopStep3 == 1200   \* 120.0, 03 line 32
T0True == 60         \* 6.0, line 101
WindowHalf == 15     \* 1.5, lines 113-114

EdgeLoSingle == 100  \* 10.0, line 38
EdgeHiSingle == 700  \* 70.0, line 38
EdgeMargin == 7      \* 0.7, line 134

\* lines 38, 134
edge_mask(x, lo, hi) == [i \in 1..Len(x) |-> x[i] <= lo \/ x[i] >= hi]

Masked(m) == {i \in 1..Len(m) : m[i]}

RECURSIVE SumOver(_, _)
SumOver(S, f) ==
  IF S = {} THEN 0
  ELSE LET i == CHOOSE j \in S : \A k \in S : j <= k
       IN  f[i] + SumOver(S \ {i}, f)

\* np.polyfit(x[m], y[m], 1) for a non-empty mask: <<slope, intercept>>
polyfit1(x, y, m) ==
  LET S   == Masked(m)
      n   == Cardinality(S)
      Sx  == SumOver(S, x)
      Sy  == SumOver(S, y)
      Sxx == SumOver(S, [i \in 1..Len(x) |-> x[i] * x[i]])
      Sxy == SumOver(S, [i \in 1..Len(x) |-> x[i] * y[i]])
      D   == n * Sxx - Sx * Sx
  IN  IF D # 0
      THEN <<Rat(n * Sxy - Sx * Sy, D), Rat(Sy * Sxx - Sx * Sxy, D)>>
      ELSE \* every masked x equals x0 = Sx / n: the minimum-norm solution
           \* of the column-scaled system, mean(y) / (2 x0) and mean(y) / 2
           <<Rat(Sy, 2 * Sx), Rat(Sy, 2 * n)>>

polyfit_rank(x, m) ==
  IF \E i \in Masked(m), j \in Masked(m) : x[i] # x[j] THEN 2 ELSE 1

\* np.polyval(pb, t)
polyval1(c, x) ==
  [i \in 1..Len(x) |-> RAdd(RMul(c[1], Rat(x[i], 1)), c[2])]

\* lines 38, 134
EdgeMask ==
  /\ pc = "mask"
  /\ edge' = edge_mask(bt, edge_lo, edge_hi)
  /\ pc' = "polyfit"
  /\ kernel_sigmas' = {}
  /\ UNCHANGED <<error, bt, signal_b, edge_lo, edge_hi, pb, rank_warning,
                 baseline_hat, baseOthers>>

\* lines 39, 135
Polyfit ==
  /\ pc = "polyfit"
  /\ IF Masked(edge) = {}
     THEN /\ error' = "TypeError"
          /\ pc' = "raised"
          /\ UNCHANGED <<pb, rank_warning>>
     ELSE /\ pb' = Some(polyfit1(bt, signal_b, edge))
          /\ rank_warning' = (polyfit_rank(bt, edge) # 2)
          /\ pc' = "polyval"
          /\ UNCHANGED error
  /\ kernel_sigmas' = {}
  /\ UNCHANGED <<bt, signal_b, edge_lo, edge_hi, edge, baseline_hat,
                 baseOthers>>

\* lines 40, 136
Polyval ==
  /\ pc = "polyval"
  /\ baseline_hat' = polyval1(pb[1], bt)
  /\ pc' = "baseline"
  /\ kernel_sigmas' = {}
  /\ UNCHANGED <<error, bt, signal_b, edge_lo, edge_hi, edge, pb,
                 rank_warning, baseOthers>>

\* line 20 on NB samples, in units of 0.1 / (NB - 1)
base_grid_single ==
  [i \in 1..NB |->
     TStartSingle * (NB - 1) + (i - 1) * (TStopSingle - TStartSingle)]

\* lines 98 and 113-117 on 2 NB samples, in units of 0.1 / (2 NB - 1): the
\* samples of np.linspace(3.0, 8.0, size) inside the window
base_grid_multi ==
  SelectSeq([i \in 1..(2 * NB) |->
               TStartMulti * (2 * NB - 1)
                 + (i - 1) * (TStopMulti - TStartMulti)],
            LAMBDA g : /\ g >= (T0True - WindowHalf) * (2 * NB - 1)
                       /\ g <= (T0True + WindowHalf) * (2 * NB - 1))

\* Baseline estimation as the two functions call it: the mask of line 38
\* on the grid of line 20, and the mask of line 134 on the windowed grid,
\* on every signal with values 0..MaxY.
InitBaseline ==
  /\ error = "none" /\ kernel_sigmas = {}
  /\ pc = "mask"
  /\ \/ /\ bt = base_grid_single
        /\ edge_lo = EdgeLoSingle * (NB - 1)
        /\ edge_hi = EdgeHiSingle * (NB - 1)
     \/ /\ bt = base_grid_multi
        /\ edge_lo = bt[1] + EdgeMargin * (2 * NB - 1)
        /\ edge_hi = bt[Len(bt)] - EdgeMargin * (2 * NB - 1)
  /\ signal_b \in [1..Len(bt) -> 0..MaxY]
  /\ BaseIdle
  /\ GridOff
  /\ MomentOff
  /\ FitOff
  /\ GenOff

NextBaseline == EdgeMask \/ Polyfit \/ Polyval

SpecBaseline == InitBaseline /\ [][NextBaseline]_vars

(***************************************************************************)
(* Moment estimator: 02-gaussian-fitting-taylor.py, lines 42-57 (single    *)
(* peak) and 137-146 (two components).  Units: t and s0 1e-6, so areas     *)
(* and variances are in units of 1e-12 and sigma in units of 1e-6          *)
(* (MomentScale per 1.0).                                                  *)
(***************************************************************************)
MomentScale == 1000000
AreaFloor == 1             \* 1e-12, lines 51-52 and 144-145
VarFloorSingle == 1        \* 1e-12, line 53
VarFloorMulti == 1000000   \* 1e-6, line 146

RECURSIVE SeqMax(_, _)
SeqMax(q, i) ==
  IF i = Len(q) THEN q[i] ELSE MaxInt(q[i], SeqMax(q, i + 1))

\* np.trapezoid(y, x): sum of (y[i] + y[i+1]) / 2 * (x[i+1] - x[i])
RECURSIVE TrapzFrom(_, _, _)
TrapzFrom(y, x, i) ==
  IF i >= Len(x) THEN Zero
  ELSE RAdd(RMul(Rat(1, 2), RMul(RAdd(y[i], y[i + 1]), RSub(x[i + 1], x[i]))),
            TrapzFrom(y, x, i + 1))
Trapz(y, x) == TrapzFrom(y, x, 1)

AsRat(q) == [i \in 1..Len(q) |-> Rat(q[i], 1)]

\* lines 43-44: threshold = 0.10 * s0.max(); np.where(s0 >= threshold, s0, 0)
\* The product 0.10 * s0.max() is rounded to a float, so a sample that is
\* exactly a tenth of the maximum compares either way (0.10 * 0.05 > 0.005,
\* 0.10 * 10.0 = 1.0): tie_kept is the outcome of s0 >= threshold for such
\* a sample.  threshold_half cuts at 0.50 * s0.max().
threshold_half(q) == Rat(SeqMax(q, 1), 2)
threshold_of(q) == Rat(SeqMax(q, 1), 10)
thresholded(q, tie_kept) ==
  [i \in 1..Len(q) |->
     IF RLt(threshold_of(q), Rat(q[i], 1)) THEN q[i]
     ELSE IF RLe(threshold_of(q), Rat(q[i], 1)) /\ tie_kept THEN q[i]
     ELSE 0]

\* np.isfinite on a rational
IsFinite(a) == a[2] # 0

\* line 47: not np.isfinite(area) or area <= 0.0
NeedsFallback(a) == ~IsFinite(a) \/ RLe(a, Zero)

\* lines 51-52: max(area, 1e-12)
area_floored(a) == RMaxOf(a, Rat(AreaFloor, 1))

\* line 51
t0_est_of(w, x, a) ==
  RDiv(Trapz([i \in 1..Len(x) |-> RMul(x[i], Rat(w[i], 1))], x),
       area_floored(a))

\* line 52
var_est_of(w, x, a, c) ==
  RDiv(Trapz([i \in 1..Len(x) |->
                RMul(RMul(RSub(x[i], c), RSub(x[i], c)), Rat(w[i], 1))], x),
       area_floored(a))

var_floor(pol) ==
  IF pol = "single" THEN Rat(VarFloorSingle, 1) ELSE Rat(VarFloorMulti, 1)

\* lines 53 and 146: sigma_est squared, max(var_est, floor);
\* sigma_sq_nofloor takes var_est as it is
sigma_sq_nofloor(v, pol) == v
sigma_sq(v, pol) == RMaxOf(v, var_floor(pol))

\* lines 42-46, 137-140
Threshold ==
  /\ pc = "threshold"
  /\ threshold' = threshold_of(s0)
  /\ \E tie_kept \in BOOLEAN :
       /\ weights' = thresholded(s0, tie_kept)
       /\ area' = Trapz(AsRat(thresholded(s0, tie_kept)), t)
       /\ thr_area' = Trapz(AsRat(thresholded(s0, tie_kept)), t)
  /\ pc' = "fallback"
  /\ kernel_sigmas' = {}
  /\ UNCHANGED <<error, policy, t, s0, used_fallback, area_div, t0_est_m,
                 var_est, sigma_est_sq, momentOthers>>

\* lines 47-49, 141-143
Fallback ==
  /\ pc = "fallback"
  /\ IF NeedsFallback(area)
     THEN /\ weights' = s0
          /\ area' = Trapz(AsRat(s0), t)
          /\ used_fallback' = TRUE
     ELSE UNCHANGED <<weights, area, used_fallback>>
  /\ pc' = "moments"
  /\ kernel_sigmas' = {}
  /\ UNCHANGED <<error, policy, t, s0, threshold, thr_area, area_div,
                 t0_est_m, var_est, sigma_est_sq, momentOthers>>

\* lines 51-53, 144-146
Moments ==
  /\ pc = "moments"
  /\ area_div' = Some(area_floored(area))
  /\ LET c == t0_est_of(weights, t, area)
         v == var_est_of(weights, t, area, c)
     IN  /\ t0_est_m' = Some(c)
         /\ var_est' = Some(v)
         /\ sigma_est_sq' = Some(sigma_sq(v, policy))
  /\ pc' = IF policy = "single" THEN "fitcurve" ELSE "estimated"
  /\ kernel_sigmas' = {}
  /\ UNCHANGED <<error, policy, t, s0, threshold, weights, area, thr_area,
                 used_fallback, momentOthers>>

\* lines 55-57: the single-peak fit curve divides by sigma_est (no clamp
\* of its own)
FitCurve ==
  /\ pc = "fitcurve"
  /\ kernel_sigmas' = {Divisor(sigma_est_sq[1], MomentScale, TRUE, "fit")}
  /\ pc' = "estimated"
  /\ UNCHANGED <<error, momentVars, momentOthers>>

\* the values a sample takes: 0, one below a tenth of the largest, one at
\* a tenth of it, one between a tenth and a half of it, and the largest
SampleLevels == {0, 1, MaxW, 4 * MaxW, 10 * MaxW}

\* The estimator on every baseline-subtracted series of NM samples
\* (line 42: clipped at 0) with values in SampleLevels, the all-zero one
\* included.
InitMoment ==
  /\ error = "none" /\ kernel_sigmas = {}
  /\ pc = "threshold"
  /\ policy \in {"single", "multi"}
  /\ t = (IF policy = "single" THEN LinSpace(0, NM - 1, NM)
          ELSE LinSpace(1, NM, NM))
  /\ s0 \in [1..NM -> SampleLevels]
  /\ MomentIdle
  /\ GridOff
  /\ BaseOff
  /\ FitOff
  /\ GenOff

NextMoment == Threshold \/ Fallback \/ Moments \/ FitCurve

SpecMoment == InitMoment /\ [][NextMoment]_vars

\* C8: on every baseline-subtracted series, the all-zero one included, the
\* estimator first zeroes the samples below 10% of the maximum and keeps
\* those above it, takes the unthresholded values exactly when the
\* thresholded area is not finite or <= 0 (which is exactly on the all-zero
\* series), divides only by max(area, 1e-12), ends without an error, and
\* returns sigma_est^2 = max(var_est, floor) >= floor > 0 (floor 1e-12
\* single, 1e-6 two-component).
C8_MomentsDegradeGracefully ==
  LET mx == SeqMax(s0, 1)
      Cut(w) == \A i \in 1..Len(s0) :
                  /\ 10 * s0[i] > mx => w[i] = s0[i]
                  /\ 10 * s0[i] < mx => w[i] = 0
                  /\ w[i] \in {0, s0[i]}
      Flat == \A i \in 1..Len(s0) : s0[i] = 0
  IN  /\ policy # "off" => error = "none"
      /\ pc = "fallback" =>
           /\ Cut(weights)
           /\ area = Trapz(AsRat(weights), t)
           /\ thr_area = area
           /\ ~used_fallback
      /\ pc \in {"moments", "fitcurve", "estimated"} =>
           /\ used_fallback <=> (~IsFinite(thr_area) \/ RLe(thr_area, Zero))
           /\ used_fallback <=> Flat
           /\ IF used_fallback THEN weights = s0 ELSE Cut(weights)
           /\ area = Trapz(AsRat(weights), t)
      /\ pc \in {"fitcurve", "estimated"} =>
           /\ area_div[1] = RMaxOf(area, Rat(AreaFloor, 1))
           /\ RGe(area_div[1], Rat(AreaFloor, 1))
           /\ sigma_est_sq[1] = RMaxOf(var_est[1], var_floor(policy))
           /\ RGe(sigma_est_sq[1], var_floor(policy))
           /\ RLt(Zero, sigma_est_sq[1])
           /\ Flat => sigma_est_sq[1] = var_floor(policy)

\* an estimate made from thresholded weights: one positive sample below 10%
\* of the maximum was zeroed, and one between 10% and 50% of it was kept
C8_Witness ==
  /\ pc = "estimated" /\ ~used_fallback
  /\ \E i \in 1..Len(s0) : s0[i] > 0 /\ weights[i] = 0
  /\ \E j \in 1..Len(s0) :
        /\ 10 * s0[j] > SeqMax(s0, 1) /\ 2 * s0[j] < SeqMax(s0, 1)
        /\ weights[j] = s0[j]

(***************************************************************************)
(* General multi-Gaussian fit: 03-peak-deconvolution-step3.py.             *)
(* Units: area, intercept and y 1e-5; center and t 1; sigma 0.1 (FitScale  *)
(* per 1.0); slope 0.01.  A parameter is [role, v]: the quantity the       *)
(* expression that produced it stands for, and its value.                  *)
(***************************************************************************)
FitScale == 10
maxfev == 120000    \* line 63
AreaInitFloor == 1  \* 1e-5, line 50
SigmaInit == 10     \* 1.0, line 50
SigmaLb == 4        \* 0.4, line 51
SigmaUb == 250      \* 25.0, line 52
TMin == 0           \* np.min(t), lines 32, 47
TMax == 120         \* np.max(t), lines 32, 48
YSpanFloor == 10000 \* 0.1, line 46
YSpanTimes == 5     \* line 52
InterceptPad == 50000 \* 0.5, lines 54-55
SlopeBound == 5     \* 0.05, lines 54-55

\* line 35: (area, center, sigma)
CodeComponents == {<<50000, 34, 44>>, <<62000, 51, 42>>, <<38000, 62, 54>>}

\* min, median and max of the noisy series y (line 41)
YStatsVals ==
  {[min |-> -1000, med |-> 5000, max |-> 68000],
   [min |-> 0, med |-> 6000, max |-> 70000]}

Par(role, v) == [role |-> role, v |-> v]

\* line 16: sigma_safe = max(float(sigma), 1e-9)
sigma_safe(sig) ==
  IF RGeInv(sig, FloorInv \div FitScale) THEN sig
  ELSE Rat(1, FloorInv \div FitScale)

\* line 46
y_span_of(ys) == MaxInt(ys.max - ys.min, YSpanFloor)

\* lines 50-52: what one component adds to p0, lb, ub; p0_triple_swapped
\* puts the center first
p0_triple_swapped(c) ==
  <<Par("center", c[2]), Par("area", MaxInt(c[1], AreaInitFloor)),
    Par("sigma", SigmaInit)>>
p0_triple(c) ==
  <<Par("area", MaxInt(c[1], AreaInitFloor)), Par("center", c[2]),
    Par("sigma", SigmaInit)>>
lb_triple == <<Par("area", 0), Par("center", TMin), Par("sigma", SigmaLb)>>
ub_triple(ys) ==
  <<Par("area", y_span_of(ys) * YSpanTimes), Par("center", TMax),
    Par("sigma", SigmaUb)>>

\* lines 53-55
p0_tail(ys) == <<Par("intercept", ys.med), Par("slope", 0)>>
lb_tail(ys) ==
  <<Par("intercept", ys.min - InterceptPad), Par("slope", -SlopeBound)>>
ub_tail(ys) ==
  <<Par("intercept", ys.max + InterceptPad), Par("slope", SlopeBound)>>

\* lines 21 and 71
n_comp_of(params) == (Len(params) - 2) \div 3

\* lines 20-27, _fit_model: the reads of params, in order: params[-2],
\* params[-1], then params[3i : 3i+3] as (area_i, t0_i, sigma_i)
RECURSIVE triple_reads(_, _, _)
triple_reads(params, i, n) ==
  IF i >= n THEN <<>>
  ELSE <<[pos |-> 3 * i + 1, as |-> "area", v |-> params[3 * i + 1].v],
         [pos |-> 3 * i + 2, as |-> "center", v |-> params[3 * i + 2].v],
         [pos |-> 3 * i + 3, as |-> "sigma", v |-> params[3 * i + 3].v]>>
       \o triple_reads(params, i + 1, n)

fit_model_reads(params) ==
  <<[pos |-> Len(params) - 1, as |-> "intercept",
     v |-> params[Len(params) - 1].v],
    [pos |-> Len(params), as |-> "slope", v |-> params[Len(params)].v]>>
  \o triple_reads(params, 0, n_comp_of(params))

\* lines 15-17 under lines 24-26: the sigmas _gauss divides by
gauss_sigmas(rd) ==
  {Divisor(sigma_safe(Rat(rd[j].v, 1)), FitScale, FALSE, "_gauss") :
     j \in {i \in 1..Len(rd) : rd[i].as = "sigma"}}

\* curve_fit refuses a p0 outside the bounds
Feasible(x, lo, hi) ==
  /\ Len(x) = Len(lo) /\ Len(x) = Len(hi)
  /\ \A i \in 1..Len(x) : lo[i].v <= x[i].v /\ x[i].v <= hi[i].v

\* lines 37-39: the clean series evaluates _gauss on the true components
Synthesize ==
  /\ pc = "synth"
  /\ kernel_sigmas' =
       {Divisor(sigma_safe(Rat(true_components[i][3], 1)), FitScale, FALSE,
                "_gauss") : i \in 1..Len(true_components)}
  /\ pc' = "build"
  /\ UNCHANGED <<error, fitVars, fitOthers>>

\* lines 49-52: one pass of the loop that builds p0, lb, ub
BuildComponent ==
  /\ pc = "build"
  /\ Len(p0) < 3 * Len(true_components)
  /\ LET c == true_components[(Len(p0) \div 3) + 1]
     IN  /\ p0' = p0 \o p0_triple(c)
         /\ lb' = lb \o lb_triple
         /\ ub' = ub \o ub_triple(y_stats)
  /\ kernel_sigmas' = {}
  /\ UNCHANGED <<pc, error, true_components, y_stats, nfev_needed,
                 last_iterate, fit_error, popt, reads, y_fit, fit_decoded,
                 fitOthers>>

\* lines 53-55
BuildBaseline ==
  /\ pc = "build"
  /\ Len(p0) >= 3 * Len(true_components)
  /\ p0' = p0 \o p0_tail(y_stats)
  /\ lb' = lb \o lb_tail(y_stats)
  /\ ub' = ub \o ub_tail(y_stats)
  /\ pc' = "curve_fit"
  /\ kernel_sigmas' = {}
  /\ UNCHANGED <<error, true_components, y_stats, nfev_needed, last_iterate,
                 fit_error, popt, reads, y_fit, fit_decoded, fitOthers>>

\* lines 57-64: curve_fit with bounds runs scipy's least_squares (trf) with
\* max_nfev = maxfev; it evaluates _fit_model at feasible iterates, returns
\* the last iterate when it converged within max_nfev evaluations and
\* otherwise raises RuntimeError("Optimal parameters not found: ...")
CurveFit ==
  /\ pc = "curve_fit"
  /\ IF ~Feasible(p0, lb, ub)
     THEN /\ error' = "ValueError"
          /\ pc' = "raised"
          /\ kernel_sigmas' = {}
          /\ UNCHANGED <<last_iterate, fit_error, popt, reads>>
     ELSE \E x \in {p0, lb, ub} :
          /\ reads' = fit_model_reads(x)
          /\ kernel_sigmas' = gauss_sigmas(fit_model_reads(p0))
                                \cup gauss_sigmas(fit_model_reads(x))
          /\ last_iterate' = Some(x)
          /\ IF nfev_needed <= maxfev
             THEN /\ popt' = Some(x)
                  /\ pc' = "reconstruct"
                  /\ UNCHANGED <<error, fit_error>>
             ELSE /\ fit_error' =
                       Some([type |-> "RuntimeError",
                             message |-> "Optimal parameters not found",
                             carried |-> <<>>])
                  /\ error' = "RuntimeError"
                  /\ pc' = "raised"
                  /\ UNCHANGED popt
  /\ UNCHANGED <<true_components, y_stats, p0, lb, ub, nfev_needed, y_fit,
                 fit_decoded, fitOthers>>

\* lines 65-75: y_fit = _fit_model(t, *popt), then main's own decoding of
\* popt
Reconstruct ==
  /\ pc = "reconstruct"
  /\ reads' = fit_model_reads(popt[1])
  /\ y_fit' = Some(fit_model_reads(popt[1]))
  /\ fit_decoded' =
       Some([c0 |-> Len(popt[1]) - 1, c1 |-> Len(popt[1]),
             n_comp |-> n_comp_of(popt[1]),
             components |-> triple_reads(popt[1], 0, n_comp_of(popt[1]))])
  /\ kernel_sigmas' = gauss_sigmas(fit_model_reads(popt[1]))
  /\ pc' = "done"
  /\ UNCHANGED <<error, true_components, y_stats, p0, lb, ub, nfev_needed,
                 last_iterate, fit_error, popt, fitOthers>>

ComponentSeqs ==
  UNION {[1..k -> CodeComponents] : k \in 1..MaxK}

\* The fit on 1..MaxK component guesses, the three of line 35 among them.
\* Whether the optimizer converges on the series of line 41 within the cap
\* is not decided here: the data may need fewer, exactly, or more
\* evaluations than the cap, and both outcomes of curve_fit are kept.
InitFit ==
  /\ error = "none" /\ kernel_sigmas = {}
  /\ pc = "synth"
  /\ true_components \in ComponentSeqs
  /\ y_stats \in YStatsVals
  /\ nfev_needed \in (maxfev - FevSlack)..(maxfev + FevSlack)
  /\ FitIdle
  /\ GridOff
  /\ MomentOff
  /\ BaseOff
  /\ GenOff

NextFit ==
  Synthesize \/ BuildComponent \/ BuildBaseline \/ CurveFit \/ Reconstruct

SpecFit == InitFit /\ [][NextFit]_vars

\* the role of each entry of a parameter vector, in order
Roles(q) == [i \in 1..Len(q) |-> q[i].role]

Layout(k) ==
  [i \in 1..(3 * k + 2) |->
     IF i = 3 * k + 1 THEN "intercept"
     ELSE IF i = 3 * k + 2 THEN "slope"
     ELSE IF i % 3 = 1 THEN "area"
     ELSE IF i % 3 = 2 THEN "center" ELSE "sigma"]

ReadOnce(rd, n) ==
  /\ Len(rd) = n
  /\ \A q \in 1..n : Cardinality({j \in 1..Len(rd) : rd[j].pos = q}) = 1

\* C9: for a fit called with k component guesses, p0, lb and ub all have
\* length 3k+2 and the layout (area_i, center_i, sigma_i) at 3i..3i+2 then
\* (intercept, slope); every _fit_model evaluation and the final
\* reconstruction decode exactly k triples, read every position exactly
\* once, and read it as the quantity the layout puts there.
C9_ParameterLayout ==
  LET k == Len(true_components)
  IN  /\ pc \in {"curve_fit", "reconstruct", "done", "raised"} =>
           /\ Roles(p0) = Layout(k)
           /\ Roles(lb) = Layout(k)
           /\ Roles(ub) = Layout(k)
      /\ reads # <<>> =>
           /\ ReadOnce(reads, 3 * k + 2)
           /\ \A j \in 1..Len(reads) :
                /\ reads[j].as = Layout(k)[reads[j].pos]
                /\ reads[j].as = last_iterate[1][reads[j].pos].role
      /\ pc = "done" =>
           /\ fit_decoded[1].n_comp = k
           /\ Len(fit_decoded[1].components) = 3 * k
           /\ popt[1][fit_decoded[1].c0].role = "intercept"
           /\ popt[1][fit_decoded[1].c1].role = "slope"
           /\ \A j \in 1..(3 * k) :
                fit_decoded[1].components[j].as
                  = popt[1][fit_decoded[1].components[j].pos].role

\* a converged fit with two components, reconstructed
C9_Witness ==
  /\ pc = "done" /\ Len(true_components) = 2
  /\ Len(popt[1]) = 8 /\ fit_decoded[1].n_comp = 2

(***************************************************************************)
(* Synthetic series: 02-gaussian-fitting-taylor.py, lines 19-36            *)
(* (plot_single_gauss) and 97-117 (plot_shared_t0_multi_gauss), and        *)
(* 03-peak-deconvolution-step3.py, lines 31-41 (main).  The bit generator  *)
(* is a full-period congruential generator on 0..15, a standard normal     *)
(* draw is one of -2..2 and a standard uniform draw 0 or 1/2.  Times are   *)
(* in units of 0.1 and signal values in units of 1e-4; exp and sin are     *)
(* evaluated in fixed point with six decimals (FixScale per 1.0), which    *)
(* gives the clean series to the fourth decimal.                           *)
(***************************************************************************)
SeedSingle == 3   \* line 19
SeedMulti == 7    \* line 97
SeedStep3 == 5    \* 03, line 31

\* lines 20 and 98, 03 line 32: t = np.linspace(start, stop, size)
time_grid(f) ==
  IF f = "plot_single_gauss" THEN LinSpace(TStartSingle, TStopSingle, NGen)
  ELSE IF f = "plot_shared_t0_multi_gauss"
  THEN LinSpace(TStartMulti, TStopMulti, NGen)
  ELSE LinSpace(TStartStep3, TStopStep3, NGen)

\* lines 113-115: window = (t >= tmin) & (t <= tmax)
window_of(x) ==
  [i \in 1..Len(x) |-> /\ RGe(x[i], Rat(T0True - WindowHalf, 1))
                       /\ RLe(x[i], Rat(T0True + WindowHalf, 1))]

\* q[m] for a boolean mask m: the entries of q where m is true, in order
BoolIndex(q, m) ==
  LET idx == {i \in 1..Len(q) : m[i]}
  IN  [k \in 1..Cardinality(idx) |->
         q[CHOOSE i \in idx : Cardinality({j \in idx : j <= i}) = k]]

seed_of(f) ==
  IF f = "plot_single_gauss" THEN SeedSingle
  ELSE IF f = "plot_shared_t0_multi_gauss" THEN SeedMulti ELSE SeedStep3

\* np.random.default_rng(seed): a new generator, its state set by the seed
default_rng(seed) == seed % 16

rng_next(st) == (5 * st + 1) % 16

\* lines 19 and 97, 03 line 31: the generator a function draws from is
\* the one it creates on entry
rng_on_entry(f, old) == Some(default_rng(seed_of(f)))

\* the state after n draws
RECURSIVE rng_after(_, _)
rng_after(st, n) == IF n = 0 THEN st ELSE rng_after(rng_next(st), n - 1)

NoiseSingle == 500   \* 0.05, line 31
NoiseMulti == 60     \* 0.006, line 111
NoiseStep3 == 120    \* 0.012, 03 line 41
SpikeLow == 1500     \* 0.15, line 35
SpikeHigh == 4000    \* 0.4, line 35

noise_scale(f) ==
  IF f = "plot_single_gauss" THEN NoiseSingle
  ELSE IF f = "plot_shared_t0_multi_gauss" THEN NoiseMulti ELSE NoiseStep3

\* rng.normal(scale = scale, size = n)
normal_draws(st, scale, n) ==
  [i \in 1..n |-> scale * ((rng_after(st, i) % 5) - 2)]

\* rng.uniform(low, high, size = n)
uniform_draws(st, low, high, n) ==
  [i \in 1..n |-> low + ((rng_after(st, i) % 2) * (high - low)) \div 2]

Remove(q, j) == [i \in 1..(Len(q) - 1) |-> IF i < j THEN q[i] ELSE q[i + 1]]

\* rng.choice(pool, size = n, replace = False)
RECURSIVE choice_draws(_, _, _)
choice_draws(st, pool, n) ==
  IF n = 0 THEN <<>>
  ELSE LET st1 == rng_next(st)
           j   == (st1 % Len(pool)) + 1
       IN  <<pool[j]>> \o choice_draws(st1, Remove(pool, j), n - 1)

FixScale == 1000000     \* fixed point: 1.0
Ln2Fix == 693147        \* ln 2
PiFix == 3141593        \* np.pi
TwoPiFix == 6283185     \* 2.0 * np.pi
HalfPiFix == 1570796    \* np.pi / 2
Sqrt2PiFix == 2506628   \* np.sqrt(2.0 * np.pi)

RECURSIVE Pow(_, _)
Pow(b, k) == IF k = 0 THEN 1 ELSE b * Pow(b, k - 1)

\* a * b in fixed point, by halves so that no product leaves 32 bits
MulFix(a, b) ==
  LET ah == a \div 1000
      al == a % 1000
      bh == b \div 1000
      bl == b % 1000
  IN  ah * bh + (ah * bl + al * bh + (al * bl) \div 1000) \div 1000

\* c * s for a fixed-point s of either sign
Scaled(c, s) == IF s >= 0 THEN MulFix(c, s) ELSE -MulFix(c, -s)

\* the first k decimals of r / b, r < b
RECURSIVE DivDigits(_, _, _)
DivDigits(r, b, k) ==
  IF k = 0 THEN 0
  ELSE ((r * 10) \div b) * Pow(10, k - 1) + DivDigits((r * 10) % b, b, k - 1)

\* a / b in fixed point, for integers a >= 0, b > 0
DivFix(a, b) == (a \div b) * FixScale + DivDigits(a % b, b, 6)

\* a fixed-point a over b in units of 1e-3, in fixed point
DivMilli(a, b) == (a \div b) * 1000 + ((a % b) * 1000) \div b

\* a rational in fixed point
FixOf(r) == DivFix(r[1], r[2])

\* np.exp(-u), u >= 0: exp(-u) = 2^-k exp(-r) with u = k ln 2 + r, the
\* series of exp(-r) to its tenth term
RECURSIVE ExpTail(_, _, _)
ExpTail(term, r, n) ==
  IF n > 10 THEN 0
  ELSE LET tn == MulFix(term, r) \div n
       IN  (IF n % 2 = 1 THEN -tn ELSE tn) + ExpTail(tn, r, n + 1)

exp_neg(u) ==
  (FixScale + ExpTail(FixScale, u % Ln2Fix, 1)) \div Pow(2, u \div Ln2Fix)

\* np.sin(x), x >= 0: reduced to 0..pi/2, the series to x^11
RECURSIVE SinTail(_, _, _)
SinTail(term, x2, n) ==
  IF n > 5 THEN 0
  ELSE LET tn == MulFix(term, x2) \div ((2 * n) * (2 * n + 1))
       IN  (IF n % 2 = 1 THEN -tn ELSE tn) + SinTail(tn, x2, n + 1)

sin_quarter(x) == x + SinTail(x, MulFix(x, x), 1)

sin_half(y) ==
  IF y > HalfPiFix THEN sin_quarter(PiFix - y) ELSE sin_quarter(y)

sin_fix(x) ==
  LET y == x % TwoPiFix
  IN  IF y > PiFix THEN -sin_half(y - PiFix) ELSE sin_half(y)

\* np.exp(-0.5 * ((t - center) / sigma) ** 2), sigma in units of 1e-3;
\* beyond 6 sigma it is below 1.6e-8, 0 at this resolution
exp_kernel(t6, c6, sm) ==
  IF Abs(t6 - c6) > 6000 * sm THEN 0
  ELSE LET z == DivMilli(Abs(t6 - c6), sm)
       IN  exp_neg(MulFix(z, z) \div 2)

\* a time of the grid (units of 0.1) in fixed point
time_fix(tv) == FixOf(RMul(tv, Rat(1, 10)))

\* lines 22-30: peak + baseline at x[i]; t0_true = 35.0, sigma_true = 8.0,
\* peak_height = 3.5; t.max() is the last time of the grid
clean_single(x, i) ==
  LET tmax  == x[Len(x)]
      t6    == time_fix(x[i])
      norm  == MulFix(Sqrt2PiFix, 8000000)
      Atrue == MulFix(3500000, norm)
      peak  == MulFix(DivFix(Atrue, norm), exp_kernel(t6, 35000000, 8000))
      den   == FixOf(RMul(RMul(tmax, Rat(1, 10)), Rat(13, 10))) \div 1000
      arg   == DivMilli(MulFix(TwoPiFix, t6), den)
  IN  peak + 50000 + MulFix(30000, FixOf(RDiv(x[i], tmax)))
        + Scaled(20000, sin_fix(arg))

\* lines 107-108: gauss(x, area, sigma, center), sigma in units of 1e-3
gauss(t6, area6, sm, c6) ==
  MulFix(DivFix(area6, MulFix(Sqrt2PiFix, sm * 1000)),
         exp_kernel(t6, c6, sm))

\* lines 99-110: baseline + clean at x[i]; A1_true = 0.22,
\* sigma1_true = 0.10, A2_true = 0.75, sigma2_true = 0.55, t0_true = 6.0
clean_multi(x, i) ==
  LET t6 == time_fix(x[i])
      c6 == T0True * (FixScale \div 10)
  IN  FixScale + gauss(t6, 220000, 100, c6) + gauss(t6, 750000, 550, c6)

\* 03 lines 15-17: _gauss(x, area, center, sigma) for a component of
\* CodeComponents (area 1e-5, center 1, sigma 0.1)
RECURSIVE gauss_sum(_, _)
gauss_sum(t6, S) ==
  IF S = {} THEN 0
  ELSE LET c  == CHOOSE d \in S : TRUE
           sg == sigma_safe(Rat(c[3], 1))
       IN  MulFix(c[1] * 10,
                  exp_kernel(t6, c[2] * FixScale, (sg[1] * 100) \div sg[2]))
             + gauss_sum(t6, S \ {c})

\* 03 lines 34-39: baseline plus the true components at x[i]
clean_step3(x, i) ==
  LET t6 == time_fix(x[i])
  IN  25000 + MulFix(250, t6) + Scaled(8000, sin_fix(t6 \div 11))
        + gauss_sum(t6, CodeComponents)

\* the clean series at x[i], rounded to units of 1e-4
clean(f, x, i) ==
  LET v == IF f = "plot_single_gauss" THEN clean_single(x, i)
           ELSE IF f = "plot_shared_t0_multi_gauss" THEN clean_multi(x, i)
           ELSE clean_step3(x, i)
  IN  (v + 50) \div 100

clip0(v) == MaxInt(v, 0)

\* line 34: np.arange(30, t.size - 30), as 1-based sample numbers
spike_pool == [i \in 1..(NGen - 2 * Margin) |-> Margin + i]

\* lines 27-29 (sigma_true = 8.0), 110 (0.10 and 0.55) and 03 lines 35-39
\* (4.4, 4.2, 5.4 through _gauss): the sigmas the clean series divides by
clean_sigmas(f) ==
  IF f = "plot_single_gauss"
  THEN {Divisor(Rat(8, 1), 1, FALSE, "peak")}
  ELSE IF f = "plot_shared_t0_multi_gauss"
  THEN {Divisor(Rat(10, 1), 100, FALSE, "gauss"),
        Divisor(Rat(55, 1), 100, FALSE, "gauss")}
  ELSE {Divisor(sigma_safe(Rat(c[3], 1)), FitScale, FALSE, "_gauss") :
          c \in CodeComponents}

\* lines 19-30 and 97-110, 03 lines 31-39
Enter ==
  /\ pc = "idle"
  /\ \E f \in Functions :
       /\ calls[f] < MaxCalls
       /\ fn' = f
       /\ t_series' = time_grid(f)
       /\ rng' = rng_on_entry(f, rng)
       /\ kernel_sigmas' = clean_sigmas(f)
  /\ noise' = <<>> /\ signal' = <<>> /\ spike_indices' = <<>>
  /\ draws' = <<>>
  /\ pc' = "noise"
  /\ UNCHANGED <<error, calls, first_out, last_out, genOthers>>

\* lines 31-32 and 111, 03 line 41
DrawNoise ==
  /\ pc = "noise"
  /\ noise' = normal_draws(rng[1], noise_scale(fn), NGen)
  /\ rng' = Some(rng_after(rng[1], NGen))
  /\ signal' =
       [i \in 1..NGen |->
          IF fn = "plot_single_gauss"
          THEN clip0(clean(fn, t_series, i)
                       + normal_draws(rng[1], noise_scale(fn), NGen)[i])
          ELSE clean(fn, t_series, i)
                 + normal_draws(rng[1], noise_scale(fn), NGen)[i]]
  /\ draws' = Append(draws, "normal")
  /\ pc' = IF fn = "plot_single_gauss" THEN "spikes"
           ELSE IF fn = "plot_shared_t0_multi_gauss" THEN "window"
           ELSE "return"
  /\ kernel_sigmas' = {}
  /\ UNCHANGED <<error, fn, t_series, spike_indices, calls, first_out,
                 last_out, genOthers>>

\* lines 113-117: t and signal are cut to the window t0_true -/+ 1.5
Window ==
  /\ pc = "window"
  /\ t_series' = BoolIndex(t_series, window_of(t_series))
  /\ signal' = BoolIndex(signal, window_of(t_series))
  /\ pc' = "return"
  /\ kernel_sigmas' = {}
  /\ UNCHANGED <<error, fn, rng, noise, spike_indices, draws, calls,
                 first_out, last_out, genOthers>>

\* line 34
DrawSpikes ==
  /\ pc = "spikes"
  /\ spike_indices' = choice_draws(rng[1], spike_pool, NSpikes)
  /\ rng' = Some(rng_after(rng[1], NSpikes))
  /\ draws' = Append(draws, "choice")
  /\ pc' = "amplitudes"
  /\ kernel_sigmas' = {}
  /\ UNCHANGED <<error, fn, t_series, noise, signal, calls, first_out,
                 last_out, genOthers>>

\* lines 35-36
DrawAmplitudes ==
  /\ pc = "amplitudes"
  /\ LET u == uniform_draws(rng[1], SpikeLow, SpikeHigh,
                             Len(spike_indices))
     IN  signal' =
           [i \in 1..NGen |->
              IF \E j \in 1..Len(spike_indices) : spike_indices[j] = i
              THEN clip0(signal[i] +
                     u[CHOOSE j \in 1..Len(spike_indices) :
                         spike_indices[j] = i])
              ELSE clip0(signal[i])]
  /\ rng' = Some(rng_after(rng[1], Len(spike_indices)))
  /\ draws' = Append(draws, "uniform")
  /\ pc' = "return"
  /\ kernel_sigmas' = {}
  /\ UNCHANGED <<error, fn, t_series, noise, spike_indices, calls,
                 first_out, last_out, genOthers>>

\* the series a function has built: its t and signal
series_of(x, y) == [t |-> x, signal |-> y]

\* the function returns: its generator goes out of scope with it
Return ==
  /\ pc = "return"
  /\ calls' = [calls EXCEPT ![fn] = @ + 1]
  /\ first_out' = [first_out EXCEPT
                     ![fn] = IF @ = None
                             THEN Some(series_of(t_series, signal))
                             ELSE @]
  /\ last_out' =
       [last_out EXCEPT ![fn] = Some(series_of(t_series, signal))]
  /\ pc' = "idle"
  /\ kernel_sigmas' = {}
  /\ UNCHANGED <<error, fn, t_series, rng, noise, signal, spike_indices,
                 draws, genOthers>>

\* One process that calls the three functions any number of times, in any
\* order.
InitGen ==
  /\ error = "none" /\ kernel_sigmas = {}
  /\ pc = "idle"
  /\ GenOff
  /\ GridOff
  /\ MomentOff
  /\ BaseOff
  /\ FitOff

NextGen ==
  Enter \/ DrawNoise \/ Window \/ DrawSpikes \/ DrawAmplitudes \/ Return

SpecGen == InitGen /\ [][NextGen]_vars

(***************************************************************************)
(* Shared-t0 grid search: 02-gaussian-fitting-taylor.py, lines 148-177.    *)
(* Units: sigma_est 0.01; s1/s2 grid values 0.0001 (GridScale per 1.0);    *)
(* t0 0.1.                                                                 *)
(***************************************************************************)
GridScale == 10000
T0Half == 3         \* 0.3
S1LoFloor == 400    \* 0.04
S1LoCoef == 15      \* 0.15 * sigma_est
S1HiFloor == 2000   \* 0.20
S1HiCoef == 70      \* 0.7 * sigma_est
S2LoFloor == 3000   \* 0.30
S2LoCoef == 80      \* 0.8 * sigma_est
S2HiFloor == 10000  \* 1.0
S2HiCoef == 220     \* 2.2 * sigma_est

T0EstVals == {58, 60}

\* line 148
t0_grid_of(t0) == LinSpace(t0 - T0Half, t0 + T0Half, NT0)

\* line 149
s1_lo(sig) == MaxInt(S1LoFloor, S1LoCoef * sig)
s1_hi(sig) == MaxInt(S1HiFloor, S1HiCoef * sig)
s1_grid_of(sig) == LinSpace(s1_lo(sig), s1_hi(sig), NS1)

\* line 150; s2_lo_low is s2_lo with the floor 0.30 written as 0.03
s2_lo_low(sig) == MaxInt(S2LoFloor \div 10, S2LoCoef * sig)
s2_lo(sig) == MaxInt(S2LoFloor, S2LoCoef * sig)
s2_hi(sig) == MaxInt(S2HiFloor, S2HiCoef * sig)
s2_grid_of(sig) == LinSpace(s2_lo(sig), s2_hi(sig), NS2)

\* line 162: the test that skips a cell; SkipCell_gt lets s1 = s2 through
SkipCell_gt(s1, s2) == RLt(s2, s1)
SkipCell(s1, s2) == RGe(s1, s2)

\* line 165: the test that replaces the retained cell; IsBetter_gt keeps
\* the larger residual
IsBetter_gt(best, sse) == best = None \/ sse > best[1]
IsBetter(best, sse) == best = None \/ sse < best[1]

\* lines 126-132, solve_linear: what it returns for cell c when the
\* least-squares residual of that cell is sse
Coef(c, sse) == [of |-> "coef", cell |-> c, sse |-> sse]
Yhat(c, sse) == [of |-> "yhat", cell |-> c, sse |-> sse]

\* lines 121-124, basis_cols: the sigmas g1 and g2 divide by (no clamp)
basis_cols_sigmas(s1, s2) ==
  {Divisor(s1, GridScale, FALSE, "basis_cols"),
   Divisor(s2, GridScale, FALSE, "basis_cols")}

\* lines 159-161: the cell after c in the triple loop
NextPos(c) ==
  IF c[3] < Len(s2_grid) THEN <<c[1], c[2], c[3] + 1>>
  ELSE IF c[2] < Len(s1_grid) THEN <<c[1], c[2] + 1, 1>>
  ELSE <<c[1] + 1, 1, 1>>

LastPos(c) ==
  c[1] = Len(t0_grid) /\ c[2] = Len(s1_grid) /\ c[3] = Len(s2_grid)

bestVars == <<best_sse, best_coef, best_yhat, best_t0, best_s1, best_s2>>

\* lines 148-150
BuildGrids ==
  /\ pc = "grids"
  /\ t0_grid' = t0_grid_of(t0_est)
  /\ s1_grid' = s1_grid_of(sigma_est)
  /\ s2_grid' = s2_grid_of(sigma_est)
  /\ pc' = "loop"
  /\ kernel_sigmas' = {}
  /\ UNCHANGED <<error, sigma_est, t0_est, pos, bestVars,
                 solved, skipped, min_sse, last_call, gridOthers>>

\* lines 159-171: one pass of the innermost loop body
GridCell ==
  /\ pc = "loop"
  /\ LET c  == pos
         s1 == s1_grid[c[2]]
         s2 == s2_grid[c[3]]
     IN  IF SkipCell(s1, s2)
         THEN /\ skipped' = skipped \cup {c}
              /\ kernel_sigmas' = {}
              /\ UNCHANGED <<bestVars, solved, min_sse, last_call>>
         ELSE \E sse \in 0..MaxSSE :
              /\ solved' = solved \cup {c}
              /\ last_call' = Some(<<s1, s2>>)
              /\ min_sse' = IF min_sse = None \/ sse < min_sse[1]
                            THEN Some(sse) ELSE min_sse
              /\ kernel_sigmas' = basis_cols_sigmas(s1, s2)
              /\ IF IsBetter(best_sse, sse)
                 THEN /\ best_sse' = Some(sse)
                      /\ best_coef' = Some(Coef(c, sse))
                      /\ best_yhat' = Some(Yhat(c, sse))
                      /\ best_t0' = Some(t0_grid[c[1]])
                      /\ best_s1' = Some(s1)
                      /\ best_s2' = Some(s2)
                 ELSE UNCHANGED bestVars
              /\ UNCHANGED skipped
  /\ pos' = IF LastPos(pos) THEN pos ELSE NextPos(pos)
  /\ pc' = IF LastPos(pos) THEN "unpack" ELSE "loop"
  /\ UNCHANGED <<error, sigma_est, t0_est, t0_grid, s1_grid, s2_grid,
                 gridOthers>>

\* lines 173-177: unpacking None raises TypeError; otherwise basis_cols is
\* evaluated once more at the retained cell
Unpack ==
  /\ pc = "unpack"
  /\ IF best_coef = None
     THEN /\ error' = "TypeError"
          /\ pc' = "raised"
          /\ kernel_sigmas' = {}
     ELSE /\ pc' = "done"
          /\ kernel_sigmas' = basis_cols_sigmas(best_s1[1], best_s2[1])
          /\ UNCHANGED error
  /\ UNCHANGED <<gridVars, gridOthers>>

\* The search as the script runs it: the grids are built from the moment
\* estimates.
InitShared ==
  /\ pc = "grids" /\ error = "none" /\ kernel_sigmas = {}
  /\ sigma_est \in 1..MaxSigmaEst
  /\ t0_est \in T0EstVals
  /\ t0_grid = <<>> /\ s1_grid = <<>> /\ s2_grid = <<>>
  /\ GridIdle
  /\ MomentOff
  /\ BaseOff
  /\ FitOff
  /\ GenOff

NextShared == BuildGrids \/ GridCell \/ Unpack

SpecShared == InitShared /\ [][NextShared]_vars

\* The loop of lines 159-171 on any increasing narrow and wide ranges,
\* overlapping or not: a superset of the grids lines 148-150 build, which
\* SpecShared follows from sigma_est.
InitGridSearch ==
  /\ pc = "loop" /\ error = "none" /\ kernel_sigmas = {}
  /\ sigma_est = 0
  /\ t0_est \in T0EstVals
  /\ t0_grid = t0_grid_of(t0_est)
  /\ \E a \in 1..MaxSig, b \in 1..MaxSig :
        a <= b /\ s1_grid = LinSpace(a, b, NS1)
  /\ \E a \in 1..MaxSig, b \in 1..MaxSig :
        a <= b /\ s2_grid = LinSpace(a, b, NS2)
  /\ GridIdle
  /\ MomentOff
  /\ BaseOff
  /\ FitOff
  /\ GenOff

NextGridSearch == GridCell \/ Unpack

SpecGridSearch == InitGridSearch /\ [][NextGridSearch]_vars

Cells ==
  {<<i, j, k>> : i \in 1..Len(t0_grid), j \in 1..Len(s1_grid),
                 k \in 1..Len(s2_grid)}
ValidCells == {c \in Cells : RLt(s1_grid[c[2]], s2_grid[c[3]])}
LoopOver == pc \in {"unpack", "done", "raised"}

\* C1: when the triple loop has finished and a cell is retained, every
\* valid cell (s1 < s2) was solved, best_sse is the least residual any of
\* them returned, and best_coef, best_yhat, best_t0, best_s1, best_s2 all
\* come from the one solved cell whose residual is best_sse.
C1_RetainsGlobalMinimum ==
  (LoopOver /\ best_sse # None) =>
     /\ solved = ValidCells
     /\ best_sse = min_sse
     /\ best_coef # None /\ best_yhat # None
     /\ LET c == best_coef[1].cell
        IN  /\ c \in solved
            /\ best_coef[1].sse = best_sse[1]
            /\ best_yhat[1] = Yhat(c, best_sse[1])
            /\ best_t0 = Some(t0_grid[c[1]])
            /\ best_s1 = Some(s1_grid[c[2]])
            /\ best_s2 = Some(s2_grid[c[3]])

\* a finished search that skipped a cell and retained a cell other than
\* the first one it solved
C1_Witness ==
  /\ pc = "done" /\ skipped # {} /\ Cardinality(solved) >= 2
  /\ \E c \in solved : c # best_coef[1].cell /\
        (c[1] < best_coef[1].cell[1] \/
           (c[1] = best_coef[1].cell[1] /\ c[2] < best_coef[1].cell[2]))

\* C2: no cell with s1 >= s2 is handed to solve_linear, and whenever a
\* best cell is set, in the loop and after it, best_s1 < best_s2.
C2_NarrowBelowWide ==
  /\ last_call # None => RLt(last_call[1][1], last_call[1][2])
  /\ \A c \in solved : RLt(s1_grid[c[2]], s2_grid[c[3]])
  /\ best_s1 # None => (best_s2 # None /\ RLt(best_s1[1], best_s2[1]))

\* a cell with s1 = s2 was skipped and a best cell is set
C2_Witness ==
  /\ best_s1 # None
  /\ \E c \in skipped : s1_grid[c[2]] = s2_grid[c[3]]

\* C10: with the grids built from sigma_est, every s1_grid value is below
\* every s2_grid value, no cell is skipped, and when the loop ends all
\* cells were solved and best_coef is set.
C10_BuiltGridsNeverSkip ==
  (pc # "grids") =>
     /\ \A j \in 1..Len(s1_grid), k \in 1..Len(s2_grid) :
           RLt(s1_grid[j], s2_grid[k])
     /\ skipped = {}
     /\ LoopOver =>
          /\ Cardinality(solved) = NT0 * NS1 * NS2
          /\ best_coef # None
          /\ pc # "raised"

\* a finished search on built grids, with sigma_est large enough that both
\* lower grid ends scale with it
C10_Witness ==
  /\ pc = "done" /\ Cardinality(solved) = NT0 * NS1 * NS2
  /\ S2LoCoef * sigma_est > S2LoFloor

(***************************************************************************)
(* The two scripts: every function that evaluates a Gaussian kernel, on    *)
(* the inputs the scripts give it.                                         *)
(***************************************************************************)
Init == InitGen \/ InitMoment \/ InitShared \/ InitFit

Next == NextGen \/ NextMoment \/ NextShared \/ NextFit

Spec == Init /\ [][Next]_vars

\* C7: every sigma a Gaussian kernel divides by (_gauss, gauss, basis_cols,
\* the single-peak fit curve) is positive and at least the floor 1e-9.
C7_KernelSigmaAboveFloor ==
  \A dv \in kernel_sigmas : dv.n > 0 /\ dv.d > 0 /\ AboveFloor(dv)

\* the single-peak fit curve was evaluated on the all-zero series, where
\* var_est is 0 and sigma_est is at its floor
C7_Witness ==
  /\ pc = "estimated" /\ policy = "single"
  /\ var_est = Some(Zero)
  /\ kernel_sigmas =
       {Divisor(Rat(VarFloorSingle, 1), MomentScale, TRUE, "fit")}

====
